---- MODULE Spec2Model ----
(***************************************************************************)
(* Sammon mapping (src/SammonMapping.ipynb): the functions C, sammonStress *)
(* and sammon, modelled as a state machine over the positions of sammon's  *)
(* loop.                                                                   *)
(*                                                                         *)
(* Numbers.  A float64 is modelled as a binary floating-point number with  *)
(* a significand of MantBits bits instead of 53: a record                  *)
(* [t |-> "num", m |-> m, e |-> e] standing for m * 2^e, with              *)
(* 2^(MantBits-1) <= |m| < 2^MantBits or m = 0, or +Inf, -Inf or NaN.      *)
(* The operations follow IEEE-754 as numpy applies it to float64 scalars   *)
(* and arrays: x/0 is +-Inf, 0/0 and Inf-Inf and 0*Inf are NaN, every      *)
(* comparison with NaN is false, a result of magnitude 2^MaxExp or more is *)
(* +-Inf and a result below the smallest float64 is 0.  Results are        *)
(* rounded towards zero.  The sign of a zero is not kept: every zero       *)
(* divisor of the program is +0.0.                                         *)
(*                                                                         *)
(* Indices.  Python's rows 0..rows-1 are the indices 1..rows here.         *)
(***************************************************************************)
EXTENDS Integers, Sequences, FiniteSets, TLC

(* ------------------------------ bounds -------------------------------- *)

\* Bits of the significand of a number.
MantBits == 14

\* A finite number is below 2^MaxExp in magnitude (float64: 1024).
MaxExp == 1024

\* Largest value of the parameter iter that is explored.
MaxIter == 3

(* --------------------------- float64 values --------------------------- *)

\* Below 2^MinExp a result is 0 (float64: the smallest subnormal, 2^-1074).
MinExp == -(MaxExp + 50)

PosInf == [t |-> "inf", m |-> 1, e |-> 0]

NegInf == [t |-> "inf", m |-> -1, e |-> 0]

NaN == [t |-> "nan", m |-> 0, e |-> 0]

Zero == [t |-> "num", m |-> 0, e |-> 0]

IsNaN(a) == a.t = "nan"

IsInf(a) == a.t = "inf"

IsFinite(a) == a.t = "num"

IAbs(n) == IF n < 0 THEN -n ELSE n

Sgn(a) == IF a.m > 0 THEN 1 ELSE IF a.m < 0 THEN -1 ELSE 0

BitLen2(n) == IF n >= 2 THEN 2 ELSE n

BitLen4(n) == IF n >= 4 THEN 2 + BitLen2(n \div 4) ELSE BitLen2(n)

BitLen8(n) == IF n >= 16 THEN 4 + BitLen4(n \div 16) ELSE BitLen4(n)

BitLen16(n) == IF n >= 256 THEN 8 + BitLen8(n \div 256) ELSE BitLen8(n)

\* The number of bits of n, for 0 <= n < 2^31.
BitLen(n) == IF n >= 65536 THEN 16 + BitLen16(n \div 65536) ELSE BitLen16(n)

\* n * 2^k rounded towards zero, for n >= 0 and any integer k for which the
\* result is below 2^31.
Shift(n, k) ==
  IF k >= 0 THEN n * 2 ^ k
  ELSE IF k < -30 THEN 0
  ELSE n \div 2 ^ (-k)

\* The number s * n * 2^(e - k), n > 0 having MantBits + k bits: overflow
\* to infinity, underflow to zero.
Rounded(s, n, e, k) ==
  IF e + k + MantBits > MaxExp THEN (IF s > 0 THEN PosInf ELSE NegInf)
  ELSE IF e + k + MantBits - 1 < MinExp THEN Zero
  ELSE [t |-> "num", m |-> s * Shift(n, -k), e |-> e + k]

\* The number s * n * 2^e for a sign s and 0 <= n < 2^31, the significand
\* cut to MantBits bits.
Pack(s, n, e) ==
  IF n = 0 THEN Zero ELSE Rounded(s, n, e, BitLen(n) - MantBits)

\* The integer k as a float64.
FromInt(k) == Pack(IF k < 0 THEN -1 ELSE 1, IAbs(k), 0)

One == FromInt(1)

Neg(a) == IF IsNaN(a) THEN NaN ELSE [a EXCEPT !.m = -a.m]

Abs(a) == IF IsNaN(a) THEN NaN ELSE [a EXCEPT !.m = IAbs(a.m)]

\* a + b for finite a and b, the exponent of a being the larger one: b is
\* brought to the exponent of a with MantBits more bits.
AddAligned(a, b) ==
  Pack(IF a.m > 0 THEN 1 ELSE -1,
       IAbs(a.m) * 2 ^ MantBits
         + (IF (a.m > 0) = (b.m > 0) THEN 1 ELSE -1)
             * Shift(IAbs(b.m), MantBits - (a.e - b.e)),
       a.e - MantBits)

Add(a, b) ==
  IF IsNaN(a) \/ IsNaN(b) THEN NaN
  ELSE IF IsInf(a) /\ IsInf(b) THEN (IF a.m = b.m THEN a ELSE NaN)
  ELSE IF IsInf(a) THEN a
  ELSE IF IsInf(b) THEN b
  ELSE IF b.m = 0 THEN a
  ELSE IF a.m = 0 THEN b
  ELSE IF a.e > b.e \/ (a.e = b.e /\ IAbs(a.m) >= IAbs(b.m))
    THEN AddAligned(a, b)
  ELSE AddAligned(b, a)

Sub(a, b) == Add(a, Neg(b))

Mul(a, b) ==
  IF IsNaN(a) \/ IsNaN(b) THEN NaN
  ELSE IF IsInf(a) \/ IsInf(b)
    THEN (IF Sgn(a) * Sgn(b) = 0 THEN NaN
          ELSE IF Sgn(a) * Sgn(b) > 0 THEN PosInf ELSE NegInf)
  ELSE Pack(Sgn(a) * Sgn(b), IAbs(a.m) * IAbs(b.m), a.e + b.e)

\* Every zero divisor of the program is +0.0 (a distance, a sum of
\* distances or an absolute value), so x / 0 has the sign of x.
Div(a, b) ==
  IF IsNaN(a) \/ IsNaN(b) THEN NaN
  ELSE IF IsInf(a) /\ IsInf(b) THEN NaN
  ELSE IF IsInf(a) THEN (IF (a.m > 0) = (b.m >= 0) THEN PosInf ELSE NegInf)
  ELSE IF IsInf(b) THEN Zero
  ELSE IF b.m = 0 THEN (IF a.m = 0 THEN NaN ELSE IF a.m > 0 THEN PosInf ELSE NegInf)
  ELSE Pack(Sgn(a) * Sgn(b), (IAbs(a.m) * 2 ^ MantBits) \div IAbs(b.m),
            a.e - b.e - MantBits)

\* a < b for finite a and b.
LtFinite(a, b) ==
  IF a.m = 0 THEN b.m > 0
  ELSE IF b.m = 0 THEN a.m < 0
  ELSE IF (a.m > 0) # (b.m > 0) THEN a.m < 0
  ELSE IF a.m > 0 THEN a.e < b.e \/ (a.e = b.e /\ a.m < b.m)
  ELSE a.e > b.e \/ (a.e = b.e /\ a.m < b.m)

\* a < b; false when either side is NaN.
Lt(a, b) ==
  IF IsNaN(a) \/ IsNaN(b) THEN FALSE
  ELSE IF IsInf(a) THEN a.m < 0 /\ ~(IsInf(b) /\ b.m < 0)
  ELSE IF IsInf(b) THEN b.m > 0
  ELSE LtFinite(a, b)

\* a <= b; false when either side is NaN.
Le(a, b) == ~IsNaN(a) /\ ~IsNaN(b) /\ ~Lt(b, a)

RECURSIVE ISqrtIn(_, _, _)
\* The largest r in lo..hi with r * r <= n, given that lo is one.
ISqrtIn(n, lo, hi) ==
  IF lo >= hi THEN lo
  ELSE IF ((lo + hi + 1) \div 2) * ((lo + hi + 1) \div 2) <= n
    THEN ISqrtIn(n, (lo + hi + 1) \div 2, hi)
  ELSE ISqrtIn(n, lo, (lo + hi + 1) \div 2 - 1)

\* Bits added to a significand before its integer square root is taken.
SqrtBits == 2 * ((29 - MantBits) \div 2)

\* The square root of n * 2^e, for n > 0 and an even e.
SqrtEven(n, e) ==
  Pack(1, ISqrtIn(n * 2 ^ SqrtBits, 0, 46340), (e - SqrtBits) \div 2)

Sqrt(a) ==
  IF IsNaN(a) THEN NaN
  ELSE IF IsInf(a) THEN (IF a.m > 0 THEN PosInf ELSE NaN)
  ELSE IF a.m < 0 THEN NaN
  ELSE IF a.m = 0 THEN Zero
  ELSE IF a.e % 2 = 0 THEN SqrtEven(a.m, a.e)
  ELSE SqrtEven(2 * a.m, a.e - 1)

(* ------------------- vectors of two float64 (numpy) ------------------- *)

\* np.array([0,0])
ZeroVec == <<Zero, Zero>>

VAdd(u, w) == <<Add(u[1], w[1]), Add(u[2], w[2])>>

VSub(u, w) == <<Sub(u[1], w[1]), Sub(u[2], w[2])>>

VMul(u, w) == <<Mul(u[1], w[1]), Mul(u[2], w[2])>>

VDiv(u, w) == <<Div(u[1], w[1]), Div(u[2], w[2])>>

VAbs(u) == <<Abs(u[1]), Abs(u[2])>>

\* scalar s broadcast over the vector u
SMul(s, u) == <<Mul(s, u[1]), Mul(s, u[2])>>

SDivBy(u, s) == <<Div(u[1], s), Div(u[2], s)>>

\* scalar s minus the vector u, broadcast
SSub(s, u) == <<Sub(s, u[1]), Sub(s, u[2])>>

VFinite(u) == \A k \in 1..Len(u) : IsFinite(u[k])

(* --------------------- metrics.pairwise_distances --------------------- *)

RECURSIVE SqDist(_, _, _)
\* sum over the coordinates k..Len(p) of (p[k] - q[k])^2
SqDist(p, q, k) ==
  IF k > Len(p) THEN Zero
  ELSE Add(Mul(Sub(p[k], q[k]), Sub(p[k], q[k])), SqDist(p, q, k + 1))

Euclid(p, q) == Sqrt(SqDist(p, q, 1))

\* The matrix of Euclidean distances between the rows of P.
PairwiseDistances(P) ==
  [a \in 1..Len(P) |-> [b \in 1..Len(P) |-> Euclid(P[a], P[b])]]

\* pairwise_distances validates its argument (check_array with
\* force_all_finite) and raises ValueError when it holds NaN or infinity.
AllFinite(P) == \A a \in 1..Len(P) : VFinite(P[a])

(* --------------------------------- C ---------------------------------- *)

RECURSIVE CFrom(_, _, _, _)
\* The loops of C from the pair (a, b) on, with the running sum acc.
CFrom(distances, a, b, acc) ==
  IF a > Len(distances) THEN acc
  ELSE IF b > Len(distances) THEN CFrom(distances, a + 1, 1, acc)
  ELSE CFrom(distances, a, b + 1,
             IF a < b THEN Add(acc, distances[a][b]) ELSE acc)

C(distances) == CFrom(distances, 1, 1, Zero)

(* ---------------------------- sammonStress ---------------------------- *)

RECURSIVE EFrom(_, _, _, _, _)
\* The loops of sammonStress from the pair (a, b) on, with the running sum E.
EFrom(in_d, out_d, a, b, E) ==
  IF a > Len(in_d) THEN E
  ELSE IF b > Len(in_d) THEN EFrom(in_d, out_d, a + 1, 1, E)
  ELSE EFrom(in_d, out_d, a, b + 1,
             IF a < b
               THEN Add(E, Div(Mul(Sub(out_d[a][b], in_d[a][b]),
                                   Sub(out_d[a][b], in_d[a][b])),
                               in_d[a][b]))
               ELSE E)

sammonStress(in_d, out_d, cc) == Div(EFrom(in_d, out_d, 1, 1, Zero), cc)

\* With fewer than two rows no pair a < b exists: E and c are still the
\* Python ints 0 they were initialised to, and E / c is int / int with a
\* zero divisor, which raises ZeroDivisionError instead of giving NaN.
StressRaises(in_d) == Len(in_d) < 2

(* ------------------------------- sammon ------------------------------- *)

\* Lines 146 and 148: the literal 0.000001.
DenominatorFloor == Div(FromInt(1), FromInt(1000000))

\* Denominator without lines 146-148: the product as it is.
DenominatorUnclamped(o, d) == Mul(o, d)

\* Lines 141 and 146-148: out_distances[i, j] * in_distances[i, j], replaced
\* by 0.000001 when it is below that.
Denominator(o, d) ==
  IF Lt(Mul(o, d), DenominatorFloor) THEN DenominatorFloor ELSE Mul(o, d)

\* Lines 139-148 for the point i: the value the local denominator holds at
\* lines 150-151 for every j (unbound for j = i, which line 140 skips).
Denominators(in_d, out_d, i) ==
  [j \in 1..Len(in_d) |->
     IF j = i THEN [t |-> "unbound", m |-> 0, e |-> 0]
     ELSE Denominator(out_d[i][j], in_d[i][j])]

\* Line 142.
Difference(o, d) == Sub(o, d)

\* Line 150: the term added to partial_der1 for the pair (i, j).
Term1(yy, in_d, out_d, i, j) ==
  SMul(Div(Difference(out_d[i][j], in_d[i][j]),
           Denominator(out_d[i][j], in_d[i][j])),
       VSub(yy[i], yy[j]))

\* Line 151: the term added to partial_der2 for the pair (i, j).
Term2(yy, in_d, out_d, i, j) ==
  LET difference   == Difference(out_d[i][j], in_d[i][j])
      y_difference == VSub(yy[i], yy[j])
  IN SMul(Div(One, Denominator(out_d[i][j], in_d[i][j])),
          SSub(difference,
               SMul(Add(One, Div(difference, in_d[i][j])),
                    SDivBy(VMul(y_difference, y_difference), in_d[i][j]))))

RECURSIVE Accumulate(_, _, _, _, _, _)
\* Lines 139-151: the loop over j from j on, for the point i, with the
\* accumulators der = <<partial_der1, partial_der2>>.
Accumulate(yy, in_d, out_d, i, j, der) ==
  IF j > Len(yy) THEN der
  ELSE Accumulate(yy, in_d, out_d, i, j + 1,
         IF i # j
           THEN <<VAdd(der[1], Term1(yy, in_d, out_d, i, j)),
                  VAdd(der[2], Term2(yy, in_d, out_d, i, j))>>
           ELSE der)

\* Lines 153-154: (-2 / c) * partial_der.
Scaled(cc, u) == SMul(Div(FromInt(-2), cc), u)

\* Line 157: the new y[i].
Moved(p, a, der1, der2) == VAdd(p, SMul(a, VDiv(der1, VAbs(der2))))

\* Lines 153-157 for the point i, der1 and der2 being the scaled
\* accumulators: y[i] moves.
MovePoint(yy, a, i, der1, der2) ==
  [y |-> [yy EXCEPT ![i] = Moved(yy[i], a, der1, der2)],
   der1 |-> der1, der2 |-> der2]

\* Lines 139-157 for the point i: the accumulators go on from der, are
\* scaled, and y[i] moves.
ScaleAndMove(yy, cc, a, i, der) ==
  MovePoint(yy, a, i, Scaled(cc, der[1]), Scaled(cc, der[2]))

PointStep(yy, in_d, out_d, cc, a, i, der1, der2) ==
  ScaleAndMove(yy, cc, a, i, Accumulate(yy, in_d, out_d, i, 1, <<der1, der2>>))

\* MoreEpochs with the range one too long: range(1, iter + 2).
MoreEpochsOneExtra(e, n) == e <= n

\* Line 123: range(1, iter + 1) has a value after e.
MoreEpochs(e, n) == e < n

\* Converged with <= for <.
ConvergedOrEqual(so, s, eps) == Le(Sub(so, s), eps)

\* Converged on the stress itself, as step 3 of the introduction words it.
ConvergedAbsolute(so, s, eps) == Lt(s, eps)

\* Line 129.
Converged(so, s, eps) == Lt(Sub(so, s), eps)

\* InitialStressOld with 0 for np.inf.
InitialStressOldZero == Zero

\* Line 121.
InitialStressOld == PosInf

\* Lines 134-135: the accumulators are set once per epoch, before the loop
\* over the points.
EpochAccumulators == <<ZeroVec, ZeroVec>>

(* ------------------------------- inputs ------------------------------- *)

Point(s) == [k \in 1..Len(s) |-> FromInt(s[k])]

PointSet(S) == [a \in 1..Len(S) |-> Point(S[a])]

\* The inputs X explored: a single point, two identical points, two distinct
\* points (on a line at distance 1 and 2, and at distance 5 in the plane), a
\* coincident pair next to a distinct point, three distinct points.
Inputs ==
  { PointSet(<< <<0>> >>),
    PointSet(<< <<0>>, <<0>> >>),
    PointSet(<< <<0>>, <<1>> >>),
    PointSet(<< <<0>>, <<2>> >>),
    PointSet(<< <<0, 0>>, <<3, 4>> >>),
    PointSet(<< <<0>>, <<0>>, <<2>> >>),
    PointSet(<< <<0>>, <<1>>, <<3>> >>) }

\* The rows an initial layout is drawn from (line 115 draws every
\* coordinate from a normal distribution: any finite row can come out).
LayoutRows == { Point(<<0, 0>>), Point(<<1, 0>>), Point(<<3, 4>>), Point(<<-1, 2>>) }

InitialLayouts(n) == [1..n -> LayoutRows]

\* The values of epsilon explored: 0, 1e-7 (the default) and 1/4.
Epsilons == { Zero, Div(FromInt(1), FromInt(10000000)), Div(FromInt(1), FromInt(4)) }

\* The values of alpha explored: 1 (line 375) and 0.3 (the default).
Alphas == { One, Div(FromInt(3), FromInt(10)) }

(* ------------------------------- state -------------------------------- *)

VARIABLES
  X, iter, epsilon, alpha,      \* the arguments of sammon
  y,                            \* the layout
  in_distances, c,              \* lines 117-118
  stress_old, stress,           \* lines 121, 126
  out_distances,                \* line 124
  partial_der1, partial_der2,   \* lines 134-135, 150-154
  epoch, i,                     \* the loop variables of lines 123 and 137
  pc,                           \* the position in sammon
  outcome,                      \* how the loop was left
  printed,                      \* the stresses printed by line 128
  y_evaluated,                  \* the layout passed to line 124 in this epoch
  cycles,                       \* the completed passes of the loop of line 137
  updated,                      \* the point whose update ran last (0: none)
  denominator                   \* the denominators used in that update, per j

vars == <<X, iter, epsilon, alpha, y, in_distances, c, stress_old, stress,
          out_distances, partial_der1, partial_der2, epoch, i, pc, outcome,
          printed, y_evaluated, cycles, updated, denominator>>

args == <<X, iter, epsilon, alpha, in_distances, c>>

rows == Len(X)

\* A Python name that is not bound yet.
Unbound == [t |-> "unbound", m |-> 0, e |-> 0]

\* Lines 112-121: the state when the loop of line 123 is entered.
Init ==
  /\ X \in Inputs
  /\ in_distances = PairwiseDistances(X)
  /\ c = C(in_distances)
  /\ iter \in 1..MaxIter
  /\ epsilon \in Epsilons
  /\ alpha \in Alphas
  /\ y \in InitialLayouts(Len(X))
  /\ stress_old = InitialStressOld
  /\ stress = Unbound
  /\ out_distances = <<>>
  /\ partial_der1 = Unbound
  /\ partial_der2 = Unbound
  /\ epoch = 1
  /\ i = 0
  /\ pc = "distances"
  /\ outcome = "running"
  /\ printed = <<>>
  /\ y_evaluated = <<>>
  /\ cycles = 0
  /\ updated = 0
  /\ denominator = <<>>

\* Line 124.  pairwise_distances raises ValueError on a layout that holds
\* NaN or infinity.
Distances ==
  /\ pc = "distances"
  /\ IF AllFinite(y)
       THEN /\ out_distances' = PairwiseDistances(y)
            /\ y_evaluated' = y
            /\ pc' = "stress"
            /\ UNCHANGED outcome
       ELSE /\ pc' = "raised"
            /\ outcome' = "ValueError"
            /\ UNCHANGED <<out_distances, y_evaluated>>
  /\ UNCHANGED <<args, y, stress_old, stress, partial_der1, partial_der2,
                 epoch, i, printed, cycles, updated, denominator>>

\* Lines 126-128.
Stress ==
  /\ pc = "stress"
  /\ IF StressRaises(in_distances)
       THEN /\ pc' = "raised"
            /\ outcome' = "ZeroDivisionError"
            /\ UNCHANGED <<stress, printed>>
       ELSE /\ stress' = sammonStress(in_distances, out_distances, c)
            /\ printed' = Append(printed, stress')
            /\ pc' = "check"
            /\ UNCHANGED outcome
  /\ UNCHANGED <<args, y, stress_old, out_distances, partial_der1,
                 partial_der2, epoch, i, y_evaluated, cycles, updated,
                 denominator>>

RECURSIVE PassFrom(_, _, _, _, _, _, _)
PassFromStep(step, in_d, out_d, cc, a, k) ==
  PassFrom(step.y, in_d, out_d, cc, a, k + 1, <<step.der1, step.der2>>)

\* The layout after lines 137-157 have run for the points k..rows.
PassFrom(yy, in_d, out_d, cc, a, k, der) ==
  IF k > Len(yy) THEN yy
  ELSE PassFromStep(PointStep(yy, in_d, out_d, cc, a, k, der[1], der[2]),
                    in_d, out_d, cc, a, k)

\* Check with the break placed after the update of the points.
CheckBreakAfterUpdate ==
  /\ pc = "check"
  /\ IF Converged(stress_old, stress, epsilon)
       THEN /\ pc' = "returned"
            /\ outcome' = "break"
            /\ y' = PassFrom(y, in_distances, out_distances, c, alpha, 1,
                             EpochAccumulators)
            /\ UNCHANGED <<stress_old, partial_der1, partial_der2, i>>
       ELSE /\ stress_old' = stress
            /\ partial_der1' = EpochAccumulators[1]
            /\ partial_der2' = EpochAccumulators[2]
            /\ i' = 1
            /\ pc' = "update"
            /\ UNCHANGED <<outcome, y>>
  /\ UNCHANGED <<args, stress, out_distances, epoch, printed,
                 y_evaluated, cycles, updated, denominator>>

\* Lines 129-137: break, or record the stress, reset the accumulators and
\* enter the loop over the points.
Check ==
  /\ pc = "check"
  /\ IF Converged(stress_old, stress, epsilon)
       THEN /\ pc' = "returned"
            /\ outcome' = "break"
            /\ UNCHANGED <<stress_old, partial_der1, partial_der2, i>>
       ELSE /\ stress_old' = stress
            /\ partial_der1' = EpochAccumulators[1]
            /\ partial_der2' = EpochAccumulators[2]
            /\ i' = 1
            /\ pc' = "update"
            /\ UNCHANGED outcome
  /\ UNCHANGED <<args, y, stress, out_distances, epoch, printed,
                 y_evaluated, cycles, updated, denominator>>

\* The result of PointStep stored in y[i], partial_der1 and partial_der2.
Assign(step) ==
  /\ partial_der1' = step.der1
  /\ partial_der2' = step.der2
  /\ y' = step.y

\* Lines 139-157 for the point i, then the next point, the next epoch
\* (line 123) or the return of line 159.
UpdatePoint ==
  /\ pc = "update"
  /\ Assign(PointStep(y, in_distances, out_distances, c, alpha, i,
                      partial_der1, partial_der2))
  /\ updated' = i
  /\ denominator' = Denominators(in_distances, out_distances, i)
  /\ IF i < rows
       THEN /\ i' = i + 1
            /\ UNCHANGED <<epoch, pc, outcome, cycles>>
       ELSE /\ cycles' = cycles + 1
            /\ UNCHANGED i
            /\ IF MoreEpochs(epoch, iter)
                 THEN /\ epoch' = epoch + 1
                      /\ pc' = "distances"
                      /\ UNCHANGED outcome
                 ELSE /\ pc' = "returned"
                      /\ outcome' = "exhausted"
                      /\ UNCHANGED epoch
  /\ UNCHANGED <<args, stress_old, stress, out_distances, printed, y_evaluated>>

Next == Distances \/ Stress \/ Check \/ UpdatePoint

Spec == Init /\ [][Next]_vars

Terminated == pc \in {"returned", "raised"}

(* ------------------------------ the claims ---------------------------- *)

\* The layout is an N x 2 array.
LayoutShape == Len(y) = rows /\ \A a \in 1..rows : Len(y[a]) = 2

\* All input distances between different rows are finite and positive.
NonDegenerate ==
  /\ rows >= 2
  /\ \A a, b \in 1..rows :
       a # b => IsFinite(in_distances[a][b]) /\ Lt(Zero, in_distances[a][b])

\* A single point, or several points that are all identical (c = 0).
Degenerate ==
  \/ rows = 1
  \/ rows >= 2 /\ \A a, b \in 1..rows : in_distances[a][b] = Zero

\* The epochs at which the printed stress is strictly above the one before.
Rises == { k \in 2..Len(printed) : Lt(printed[k - 1], printed[k]) }

FirstRise == CHOOSE k \in Rises : \A m \in Rises : k <= m

\* C1: when the convergence check stops the run, the returned layout is the
\* layout the stress of that epoch was computed on: no point has moved in
\* the stopping epoch.
C1_BreakReturnsEvaluatedLayout ==
  outcome = "break" => pc = "returned" /\ y = y_evaluated

\* C1 witness: a run stopped by the convergence check in a later epoch,
\* after update cycles that moved the layout.
C1_Witness ==
  outcome = "break" /\ epoch >= 2 /\ cycles = epoch - 1 /\ y = y_evaluated

C3_DegenerateNeverReturns ==
  Degenerate => pc # "returned"

\* C4: on a non-degenerate input, the stress printed by an epoch whose
\* update is applied is at most the stress printed by the epoch before.
C4_AcceptedStressNotAbove ==
  [][(pc = "check" /\ pc' = "update" /\ epoch >= 2 /\ NonDegenerate)
       => Le(printed[epoch], printed[epoch - 1])]_vars

\* C4 witness: on a non-degenerate input an epoch after the first is being
\* applied, its stress strictly below the one before.
C4_Witness ==
  /\ NonDegenerate /\ pc = "update" /\ epoch >= 2
  /\ Lt(printed[epoch], printed[epoch - 1])

\* C5 as stated: before the last epoch, the run stops at the check exactly
\* when the stress of the current layout is below epsilon.
C5_StopsExactlyBelowEpsilon ==
  [][(pc = "check" /\ epoch < iter)
       => ((pc' = "returned") <=> Lt(stress, epsilon))]_vars

C7_AlwaysReturns ==
  Terminated => pc = "returned" /\ outcome \in {"break", "exhausted"}

\* The steps a run can still take: the epochs left, each a distance
\* computation, a stress evaluation, a check and rows point updates.
StepsLeft ==
  (iter - epoch) * (rows + 3)
    + (CASE pc = "distances" -> rows + 3
         [] pc = "stress"    -> rows + 2
         [] pc = "check"     -> rows + 1
         [] pc = "update"    -> rows + 1 - i
         [] OTHER            -> 0)

\* A position of the loop of line 123 from which sammon takes a step.
AtLoopPosition ==
  /\ pc \in {"distances", "stress", "check", "update"}
  /\ outcome = "running"
  /\ epoch \in 1..iter
  /\ pc = "update" => i \in 1..rows

\* C7 as amended: every run ends (a run that has not ended is at a position
\* of the loop, from which it takes a step, and every step leaves fewer
\* steps to take), after at most iter stress evaluations and at most iter
\* update cycles; it ends by exhausting iter or by the convergence check,
\* returning an N x 2 layout, or by an exception: ZeroDivisionError in the
\* first stress evaluation of a single-point input, ValueError from
\* pairwise_distances on a layout that is no longer finite.
C7_EndsByReturnOrException ==
  /\ [](Terminated \/ AtLoopPosition)
  /\ [][StepsLeft >= 0 /\ StepsLeft' >= 0 /\ StepsLeft' < StepsLeft]_vars
  /\ [](Len(printed) <= iter /\ cycles <= iter)
  /\ [](pc = "returned" => outcome \in {"break", "exhausted"} /\ LayoutShape)
  /\ [](pc = "raised" =>
          \/ outcome = "ZeroDivisionError" /\ rows = 1 /\ epoch = 1
          \/ outcome = "ValueError" /\ ~AllFinite(y) /\ epoch >= 2)

\* C7 witness: a run of more than one epoch has returned after iter stress
\* evaluations and iter update cycles.
C7_Witness ==
  pc = "returned" /\ iter >= 2 /\ Len(printed) = iter /\ cycles = iter

\* A non-degenerate input and a finite layout whose rows were all apart when
\* the distances of this epoch were computed.
WellConditioned ==
  /\ NonDegenerate
  /\ AllFinite(y)
  /\ \A a, b \in 1..rows : a # b => Lt(Zero, out_distances[a][b])

\* C8 as stated, for well-conditioned states: the accumulators that move the
\* point i hold the terms of the pairs (i, j), j # i, summed from zero and
\* scaled once by -2/c.
C8_AccumulatorsStartFromZero ==
  [][(pc = "update" /\ WellConditioned) =>
       /\ partial_der1' =
            Scaled(c, Accumulate(y, in_distances, out_distances, i, 1,
                                 <<ZeroVec, ZeroVec>>)[1])
       /\ partial_der2' =
            Scaled(c, Accumulate(y, in_distances, out_distances, i, 1,
                                 <<ZeroVec, ZeroVec>>)[2])]_vars

\* C9 as stated, for well-conditioned states: when the point i is updated,
\* every other row of the layout is as it was when the distances of this
\* epoch were computed.
C9_ReadsEvaluatedLayout ==
  (pc = "update" /\ WellConditioned) =>
     \A j \in 1..rows : j # i => y[j] = y_evaluated[j]

Millionth == Div(FromInt(1), FromInt(1000000))

\* C11: in the update of a point i, the denominator used for every j # i
\* is never below 0.000001: it is 0.000001 when out_distances[i, j] *
\* in_distances[i, j] is below 0.000001 (0 included), and the product itself
\* otherwise.
C11_DenominatorClamped ==
  [][pc = "update" =>
       /\ updated' = i
       /\ \A j \in 1..rows : j # i =>
            /\ ~Lt(denominator'[j], Millionth)
            /\ Lt(Mul(out_distances[i][j], in_distances[i][j]), Millionth)
                 => denominator'[j] = Millionth
            /\ ~Lt(Mul(out_distances[i][j], in_distances[i][j]), Millionth)
                 => denominator'[j] = Mul(out_distances[i][j],
                                          in_distances[i][j])]_vars

\* C11 witness: a point of a three-point input was updated with one product
\* below 0.000001, replaced, and the other product above it, kept.
C11_Witness ==
  /\ updated # 0 /\ rows = 3 /\ pc \in {"update", "distances"}
  /\ \E j, k \in 1..rows :
       /\ j # updated /\ k # updated
       /\ Lt(Mul(out_distances[updated][j], in_distances[updated][j]), Millionth)
       /\ denominator[j] = Millionth
       /\ Lt(Millionth, Mul(out_distances[updated][k], in_distances[updated][k]))
       /\ denominator[k] = Mul(out_distances[updated][k], in_distances[updated][k])

\* An input of two or more rows with c > 0 and a pair of rows at distance 0.
CoincidentInput ==
  /\ rows >= 2
  /\ Lt(Zero, c)
  /\ \E a, b \in 1..rows : a < b /\ in_distances[a][b] = Zero

\* C12 as stated: on an input with a coincident pair and c > 0 every printed
\* stress is infinite or NaN, the convergence check never stops the run, no
\* error is raised, and a finished run has returned after exactly iter
\* update cycles.
C12_CoincidentRunsAllCycles ==
  CoincidentInput =>
    /\ \A k \in 1..Len(printed) : ~IsFinite(printed[k])
    /\ outcome \notin {"break", "ValueError", "ZeroDivisionError"}
    /\ Terminated => pc = "returned" /\ cycles = iter

C14_NoZeroDivisorInUpdate ==
  [][(pc = "update" /\ NonDegenerate) =>
       /\ partial_der2'[1] # Zero
       /\ partial_der2'[2] # Zero
       /\ AllFinite(y')]_vars

====
